---- MODULE Spec2Model ----
(***************************************************************************)
(* GK Healter: the safety validator, the package-manager resolver, the    *)
(* scanner and the cleaning orchestrator of gk-healter/src/cleaner.py and  *)
(* gk-healter/src/distro_manager.py, and the maintenance scheduler of      *)
(* gk-healter/src/auto_maintenance_manager.py with its settings and        *)
(* history collaborators.                                                  *)
(*                                                                         *)
(* Spec is one call of is_safe_to_delete or of clean on a fresh cleaner,   *)
(* SpecScan one call of scan on a filesystem, SpecSched a sequence of      *)
(* can_run_maintenance evaluations as time passes, SpecConc the same       *)
(* method entered by several threads at once, and SpecMaint one tick of    *)
(* the periodic handler followed by run_maintenance, SpecDistro one call   *)
(* on a DistroManager, and SpecTree one call of get_size or of clean for   *)
(* a user item on a file tree with symbolic links.                         *)
(*                                                                         *)
(* Paths are TLA+ strings; TLC evaluates Len, \o and SubSeq on strings, so *)
(* str.startswith, str.split and os.path.abspath are computed character by *)
(* character, as Python computes them.                                     *)
(***************************************************************************)
EXTENDS Integers, Sequences, FiniteSets, TLC

VARIABLES
    pkg_manager,     \* DistroManager.pkg_manager, detected at construction
    home,            \* HOME of the process
    pc,              \* "idle", "clean" (inside the loop of clean), "returned"
    last_call,       \* the call made on the cleaner, with its return value
    selected_items,  \* clean: the argument
    idx,             \* clean: position of the for loop, 1-based
    success_count,   \* clean: local
    fail_count,      \* clean: local
    errors,          \* clean: local
    dispatched,      \* per item handed to _clean_system or _clean_user
    executed,        \* argument vectors given to subprocess.run, how each ended
    removed,         \* paths on which os.remove succeeded
    fs,              \* the filesystem: catalog paths, or a file tree
    scan_results,    \* SystemCleaner.scan_results
    settings,        \* SettingsManager.settings
    now,             \* the clock, in ticks of a day
    last_disk_check_date,  \* AutoMaintenanceManager.last_disk_check_date
    evaluation,      \* the last return of can_run_maintenance, with its inputs
    threads,         \* concurrent can_run_maintenance evaluations, by thread
    disk_triggers,   \* the days of the evaluations that returned at line 94
    history,         \* the entries of the history file, newest first
    maint            \* run_maintenance: its position and its return value

(***************************************************************************)
(* Bounds of the model.                                                    *)
(***************************************************************************)
\* ticks of the clock in one calendar day
TicksPerDay == 2

\* last calendar day of a behaviour of the scheduler (the first is day 0)
MaxDay == 2

\* number of threads evaluating can_run_maintenance at the same time
MaxThreads == 2

\* largest number of bytes under one catalog path
MaxSize == 1

\* longest batch handed to clean()
MaxItems == 2
\* most files os.walk finds under a user directory
MaxFiles == 1

(***************************************************************************)
(* Strings.                                                                *)
(***************************************************************************)
\* str.startswith(prefix)
StartsWith(s, prefix) ==
    /\ Len(s) >= Len(prefix)
    /\ SubSeq(s, 1, Len(prefix)) = prefix

\* str.endswith(suffix)
EndsWith(s, suffix) ==
    /\ Len(s) >= Len(suffix)
    /\ SubSeq(s, Len(s) - Len(suffix) + 1, Len(s)) = suffix

\* s[i:] with a 1-based index
DropFirst(s, n) == SubSeq(s, n + 1, Len(s))

\* path.split('/'): the components between the separators, empty ones kept
RECURSIVE SplitFrom(_, _, _)
SplitFrom(s, start, i) ==
    IF i > Len(s) THEN << SubSeq(s, start, Len(s)) >>
    ELSE IF SubSeq(s, i, i) = "/"
         THEN << SubSeq(s, start, i - 1) >> \o SplitFrom(s, i + 1, i + 1)
         ELSE SplitFrom(s, start, i + 1)

Split(s) == SplitFrom(s, 1, 1)

\* '/'.join(comps)
RECURSIVE Join(_)
Join(comps) ==
    IF Len(comps) = 0 THEN ""
    ELSE IF Len(comps) = 1 THEN comps[1]
    ELSE comps[1] \o "/" \o Join(Tail(comps))

(***************************************************************************)
(* os.path (posixpath), as called from is_safe_to_delete.                  *)
(***************************************************************************)
\* the loop of posixpath.normpath over the components
RECURSIVE NormComps(_, _, _)
NormComps(comps, initial_slashes, new_comps) ==
    IF Len(comps) = 0 THEN new_comps
    ELSE LET comp == Head(comps)
             rest == Tail(comps)
         IN IF comp = "" \/ comp = "."
            THEN NormComps(rest, initial_slashes, new_comps)
            ELSE IF \/ comp # ".."
                    \/ (initial_slashes = 0 /\ Len(new_comps) = 0)
                    \/ (Len(new_comps) > 0 /\ new_comps[Len(new_comps)] = "..")
                 THEN NormComps(rest, initial_slashes, Append(new_comps, comp))
                 ELSE IF Len(new_comps) > 0
                      THEN NormComps(rest, initial_slashes,
                                     SubSeq(new_comps, 1, Len(new_comps) - 1))
                      ELSE NormComps(rest, initial_slashes, new_comps)

\* posixpath.normpath
normpath(path) ==
    IF path = "" THEN "."
    ELSE LET initial_slashes ==
                 IF ~StartsWith(path, "/") THEN 0
                 ELSE IF StartsWith(path, "//") /\ ~StartsWith(path, "///")
                      THEN 2 ELSE 1
             joined == Join(NormComps(Split(path), initial_slashes, << >>))
             result == IF initial_slashes = 2 THEN "//" \o joined
                       ELSE IF initial_slashes = 1 THEN "/" \o joined
                       ELSE joined
         IN IF result = "" THEN "." ELSE result

\* posixpath.join(a, b)
join(a, b) ==
    IF StartsWith(b, "/") THEN b
    ELSE IF a = "" \/ EndsWith(a, "/") THEN a \o b
    ELSE a \o "/" \o b

\* os.path.abspath(path) in a process whose working directory is cwd
abspath(cwd, path) ==
    IF StartsWith(path, "/") THEN normpath(path) ELSE normpath(join(cwd, path))

\* os.path.expanduser("~/...") with HOME = h
expanduser(h, path) ==
    IF StartsWith(path, "~/") \/ path = "~" THEN h \o DropFirst(path, 1) ELSE path

(***************************************************************************)
(* DistroManager.                                                          *)
(***************************************************************************)
\* the identifiers _detect_pkg_manager can return
PkgManagers == {"apt", "pacman", "dnf", "zypper", "yum", "unknown"}

\* DistroManager.get_package_cache_paths: (key, path, description key)
get_package_cache_paths(pm) ==
    IF pm = "apt" THEN
        << <<"cat_pkg_cache", "/var/cache/apt/archives", "desc_pkg_cache">>,
           <<"cat_autoremove", "/usr/bin/apt", "desc_autoremove">> >>
    ELSE IF pm = "pacman" THEN
        << <<"cat_pkg_cache", "/var/cache/pacman/pkg", "desc_pkg_cache">>,
           <<"cat_autoremove", "/usr/bin/pacman", "desc_unused_deps">> >>
    ELSE IF pm = "dnf" THEN
        << <<"cat_pkg_cache", "/var/cache/dnf", "desc_pkg_cache">>,
           <<"cat_autoremove", "/usr/bin/dnf", "desc_autoremove">> >>
    ELSE IF pm = "zypper" THEN
        << <<"cat_pkg_cache", "/var/cache/zypp/packages", "desc_pkg_cache">>,
           <<"cat_autoremove", "/usr/bin/zypper", "desc_autoremove">> >>
    ELSE << >>

(***************************************************************************)
(* SystemCleaner.is_safe_to_delete.                                        *)
(***************************************************************************)
\* the forbidden list without its /usr/bin entry
forbidden_NoUsrBin ==
    << "/bin", "/boot", "/dev", "/etc", "/lib", "/proc", "/sys",
       "/usr/lib", "/usr/sbin" >>

forbidden ==
    << "/bin", "/boot", "/dev", "/etc", "/lib", "/proc", "/sys",
       "/usr/bin", "/usr/lib", "/usr/sbin" >>

\* allowed_system after the loop over get_package_cache_paths
allowed_system(pm) ==
    << "/var/log", "/var/lib/systemd/coredump" >>
    \o [k \in 1..Len(get_package_cache_paths(pm)) |->
            get_package_cache_paths(pm)[k][2]]

allowed_user(h) == << expanduser(h, "~/.cache") >>

\* the test of the allow loop for one entry a
AllowMatch(path, a) ==
    \/ path = a
    \/ StartsWith(path, a \o "/")
    \/ StartsWith(path, a)

\* the allow loop run before the forbidden loop
is_safe_to_delete_AllowFirst(pm, h, cwd, arg) ==
    LET path == abspath(cwd, arg)
        allowed == allowed_system(pm) \o allowed_user(h)
    IN IF \E k \in 1..Len(allowed) : AllowMatch(path, allowed[k])
       THEN TRUE
       ELSE FALSE

\* the comparisons made on the argument as given, without abspath
is_safe_to_delete_Literal(pm, h, cwd, arg) ==
    LET allowed == allowed_system(pm) \o allowed_user(h)
    IN IF \E k \in 1..Len(forbidden) : StartsWith(arg, forbidden[k])
       THEN FALSE
       ELSE \E k \in 1..Len(allowed) : AllowMatch(arg, allowed[k])

is_safe_to_delete(pm, h, cwd, arg) ==
    LET path == abspath(cwd, arg)
        allowed == allowed_system(pm) \o allowed_user(h)
    IN IF \E k \in 1..Len(forbidden) : StartsWith(path, forbidden[k])
       THEN FALSE
       ELSE \E k \in 1..Len(allowed) : AllowMatch(path, allowed[k])

(***************************************************************************)
(* The environment of the process and the calls made on the cleaner.       *)
(***************************************************************************)
\* values of HOME
Homes == {"/home/u"}

\* working directories of the process
Cwds(h) == {"/", "/var", h, "/var/log/x"}

\* the universal system directories and every manager's table entries
KnownPaths ==
    {"/var/log", "/var/lib/systemd/coredump"}
    \cup {get_package_cache_paths(pm)[k][2] :
              pm \in {"apt", "pacman"}, k \in 1..2}
    \cup {get_package_cache_paths(pm)[k][2] :
              pm \in {"dnf", "zypper"}, k \in 1..2}

QueryBases(h) ==
    {forbidden[k] : k \in 1..Len(forbidden)}
    \cup KnownPaths
    \cup {h, expanduser(h, "~/.cache"), "/opt/something", "/", "/var",
          "//etc", "/usr", "/var/cache"}

QuerySuffixes ==
    {"", "/", "/x", "/.", "/..", "2", "s-old", "-backup", "itude",
     "/../../etc/passwd", "/../log", "//x/./y"}

RelativePaths ==
    {"", ".", "..", "log", "var/log", "../etc/passwd", ".cache/x",
     "./log/../log", "../../usr/bin/apt", "x/../.."}

QueryPaths(h) ==
    {b \o s : b \in QueryBases(h), s \in QuerySuffixes} \cup RelativePaths

(***************************************************************************)
(* DistroManager.get_clean_command and SystemCleaner._clean_system.        *)
(***************************************************************************)
\* get_clean_command looking the path up in the tables of all managers
get_clean_command_AnyManager(pm, path) ==
    IF path = "/var/cache/apt/archives" THEN <<"pkexec", "apt-get", "clean">>
    ELSE IF path = "/usr/bin/apt"
    THEN <<"pkexec", "apt-get", "autoremove", "-y">>
    ELSE IF path = "/var/cache/pacman/pkg"
    THEN <<"pkexec", "pacman", "-Scc", "--noconfirm">>
    ELSE IF path = "/usr/bin/pacman"
    THEN <<"sh", "-c",
           "pacman -Qtdq | xargs -r pkexec pacman -Rns --noconfirm">>
    ELSE IF path = "/var/cache/dnf" THEN <<"pkexec", "dnf", "clean", "all">>
    ELSE IF path = "/usr/bin/dnf" THEN <<"pkexec", "dnf", "autoremove", "-y">>
    ELSE IF path = "/var/cache/zypp/packages"
    THEN <<"pkexec", "zypper", "clean", "--all">>
    ELSE << >>

get_clean_command(pm, path) ==
    IF pm = "apt" THEN
        IF path = "/var/cache/apt/archives" THEN <<"pkexec", "apt-get", "clean">>
        ELSE IF path = "/usr/bin/apt"
             THEN <<"pkexec", "apt-get", "autoremove", "-y">>
             ELSE << >>
    ELSE IF pm = "pacman" THEN
        IF path = "/var/cache/pacman/pkg"
        THEN <<"pkexec", "pacman", "-Scc", "--noconfirm">>
        ELSE IF path = "/usr/bin/pacman"
             THEN <<"sh", "-c",
                    "pacman -Qtdq | xargs -r pkexec pacman -Rns --noconfirm">>
             ELSE << >>
    ELSE IF pm = "dnf" THEN
        IF path = "/var/cache/dnf" THEN <<"pkexec", "dnf", "clean", "all">>
        ELSE IF path = "/usr/bin/dnf"
             THEN <<"pkexec", "dnf", "autoremove", "-y">>
             ELSE << >>
    ELSE IF pm = "zypper" THEN
        IF path = "/var/cache/zypp/packages"
        THEN <<"pkexec", "zypper", "clean", "--all">>
        ELSE << >>
    ELSE << >>

\* the shell command of _clean_system for /var/log
bash_cmd ==
    "find /var/log -type f -regex '.*\\.\\(gz\\|[0-9]+\\)$' -delete && "
    \o "find /var/log -type f -name '*.log' -exec truncate -s 0 {} + && "
    \o "journalctl --vacuum-time=1s"

\* the command _clean_system chooses for path; << >> when it has none
SystemCommand(pm, path) ==
    IF get_clean_command(pm, path) # << >> THEN get_clean_command(pm, path)
    ELSE IF path = "/var/log"
         THEN <<"pkexec", "sh", "-c", bash_cmd>>
    ELSE IF path = "/var/lib/systemd/coredump"
         THEN <<"pkexec", "sh", "-c", "rm -rf /var/lib/systemd/coredump/*">>
    ELSE << >>

\* a translated message, formatted with its arguments
Msg(key, args) == [key |-> key, args |-> args]

\* the return value of a function that returns (True, None)
None == [key |-> "None", args |-> << >>]

Ok == [success |-> TRUE, error_msg |-> None]

Fail(msg) == [success |-> FALSE, error_msg |-> msg]

\* how subprocess.run(cmd, check=True, timeout=120) can end
ExitCodes == {0, 1, 126, 127}

RunOutcomes ==
    [kind : {"exit"}, code : ExitCodes]
    \cup {[kind |-> "timeout", code |-> 0], [kind |-> "exception", code |-> 0]}

\* the try block with exit code 1 taken for a cancelled authorization too
RunResult_OneCancelled(path, outcome) ==
    IF outcome.kind = "timeout"
    THEN Fail(Msg("err_unexpected", <<path, "Operation timed out">>))
    ELSE IF outcome.kind = "exception"
    THEN Fail(Msg("err_unexpected", <<path, "e">>))
    ELSE IF outcome.code = 0 THEN Ok
    ELSE IF outcome.code \in {126, 127, 1}
    THEN Fail(Msg("err_auth_cancelled", <<path>>))
    ELSE Fail(Msg("err_sys_clean_code", <<ToString(outcome.code), path>>))

\* the try block of _clean_system, given how the command ended
RunResult(path, outcome) ==
    IF outcome.kind = "timeout"
    THEN Fail(Msg("err_unexpected", <<path, "Operation timed out">>))
    ELSE IF outcome.kind = "exception"
    THEN Fail(Msg("err_unexpected", <<path, "e">>))
    ELSE IF outcome.code = 0 THEN Ok
    ELSE IF outcome.code \in {126, 127}
    THEN Fail(Msg("err_auth_cancelled", <<path>>))
    ELSE Fail(Msg("err_sys_clean_code", <<ToString(outcome.code), path>>))

\* _clean_system without its final else: an empty command is run as well
clean_system_NoElse(pm, path, outcome) ==
    [ret |-> RunResult(path, outcome), ran |-> << SystemCommand(pm, path) >>]

\* _clean_system: the return value and the commands it ran
clean_system(pm, path, outcome) ==
    LET cmd == SystemCommand(pm, path)
    IN IF cmd = << >>
       THEN [ret |-> Fail(Msg("err_unknown_sys_path", <<path>>)), ran |-> << >>]
       ELSE [ret |-> RunResult(path, outcome), ran |-> << cmd >>]

(***************************************************************************)
(* SystemCleaner._clean_user.                                              *)
(***************************************************************************)
\* the files os.walk yields under a directory, relative to it
WalkFiles == <<"a.txt", "sub/b.txt", "sub/deep/c.txt">>

\* what _clean_user finds at the path: its kind, the number of files os.walk
\* yields, and the file on which os.remove raises (0: none)
FsViews ==
    {[kind |-> "absent", files |-> 0, raises |-> 0]}
    \cup [kind : {"file"}, files : {1}, raises : {0, 1}]
    \cup {v \in [kind : {"dir"}, files : 0..MaxFiles, raises : 0..MaxFiles] :
              v.raises <= v.files}

\* the last component of a path
Basename(p) == LET comps == Split(p) IN comps[Len(comps)]

\* _clean_user: the return value and the paths it removed
clean_user(path, view) ==
    IF view.kind = "file" THEN
        IF view.raises = 1
        THEN [ret |-> Fail(Msg("err_user_clean_fail", <<path, "e">>)),
              gone |-> << >>]
        ELSE [ret |-> Ok, gone |-> << path >>]
    ELSE IF view.kind = "dir" THEN
        IF view.raises = 0
        THEN [ret |-> Ok,
              gone |-> [k \in 1..view.files |-> join(path, WalkFiles[k])]]
        ELSE [ret |-> Fail(Msg("err_file_delete",
                               <<Basename(WalkFiles[view.raises]), "e">>)),
              gone |-> [k \in 1..(view.raises - 1) |-> join(path, WalkFiles[k])]]
    ELSE [ret |-> Ok, gone |-> << >>]

(***************************************************************************)
(* SystemCleaner.clean.                                                    *)
(***************************************************************************)
\* the items a caller can select
CleanItems(h) ==
    { [path |-> "/boot/vmlinuz", system |-> FALSE],
      [path |-> "/usr/bin/apt", system |-> TRUE],
      [path |-> "/var/log", system |-> TRUE],
      [path |-> "/var/log", system |-> FALSE],
      [path |-> "/var/cache/apt/archives", system |-> TRUE],
      [path |-> expanduser(h, "~/.cache/thumbnails"), system |-> FALSE],
      [path |-> expanduser(h, "~/.cache/thumbnails"), system |-> TRUE] }

Selections(h) == UNION {[1..n -> CleanItems(h)] : n \in 0..MaxItems}

NoCall == [op |-> "none"]

\* last_disk_check_date = None
NoDate == -1

\* can_run_maintenance has not been called
NoEvaluation == [op |-> "none"]

\* run_maintenance has not been called
NoRun == [pc |-> "none"]

\* last_maintenance_date = None
Never == << >>

\* SettingsManager.defaults: the keys the scheduler reads
defaults ==
    [auto_maintenance_enabled |-> FALSE,
     maintenance_frequency_days |-> 30,
     idle_threshold_minutes |-> 15,
     disk_threshold_enabled |-> FALSE,
     disk_threshold_percent |-> 90,
     check_ac_power |-> TRUE,
     last_maintenance_date |-> Never]

vars == << pkg_manager, home, pc, last_call, selected_items, idx,
           success_count, fail_count, errors, dispatched, executed, removed,
           fs, scan_results, settings, now, last_disk_check_date, evaluation,
           threads, disk_triggers, history, maint >>

\* the state of the scheduler, of the history and of the filesystem
schedVars == << fs, scan_results, settings, now, last_disk_check_date,
                evaluation, threads, disk_triggers, history, maint >>

cleanVars == << selected_items, idx, success_count, fail_count, errors,
                dispatched, executed, removed >>

\* the cleaner after construction, before any call
CleanerIdle ==
    /\ pc = "idle"
    /\ last_call = NoCall
    /\ selected_items = << >>
    /\ idx = 1
    /\ success_count = 0
    /\ fail_count = 0
    /\ errors = << >>
    /\ dispatched = << >>
    /\ executed = << >>
    /\ removed = << >>
    /\ scan_results = << >>

\* no scheduler tick, no concurrent evaluation and no scheduled run
SchedulerIdle ==
    /\ last_disk_check_date = NoDate
    /\ evaluation = NoEvaluation
    /\ threads = << >>
    /\ disk_triggers = << >>
    /\ history = << >>
    /\ maint = NoRun

Init ==
    /\ pkg_manager \in PkgManagers
    /\ home \in Homes
    /\ CleanerIdle
    /\ SchedulerIdle
    /\ fs = << >>
    /\ settings = defaults
    /\ now = 0

\* a call of is_safe_to_delete(path) and its return value
IsSafeToDelete ==
    /\ pc = "idle"
    /\ \E cwd \in Cwds(home), path \in QueryPaths(home) :
          last_call' = [op |-> "is_safe_to_delete", path |-> path, cwd |-> cwd,
                        ret |-> is_safe_to_delete(pkg_manager, home, cwd, path)]
    /\ pc' = "returned"
    /\ UNCHANGED << pkg_manager, home >>
    /\ UNCHANGED cleanVars
    /\ UNCHANGED schedVars

\* clean(selected_items) is called: the locals are initialised
CleanCall ==
    /\ pc = "idle"
    /\ \E sel \in Selections(home) : selected_items' = sel
    /\ last_call' = [op |-> "clean"]
    /\ pc' = "clean"
    /\ idx' = 1
    /\ success_count' = 0
    /\ fail_count' = 0
    /\ errors' = << >>
    /\ UNCHANGED << pkg_manager, home, dispatched, executed, removed >>
    /\ UNCHANGED schedVars

\* the end of one iteration for an item that was dispatched
Tally(ret) ==
    IF ret.success
    THEN /\ success_count' = success_count + 1
         /\ UNCHANGED << fail_count, errors >>
    ELSE /\ fail_count' = fail_count + 1
         /\ errors' = IF ret.error_msg # None
                      THEN Append(errors, ret.error_msg) ELSE errors
         /\ UNCHANGED success_count

\* the validation applied to user items only
Validated_SystemTrusted(item, cwd) ==
    item.system \/ is_safe_to_delete(pkg_manager, home, cwd, item.path)

\* the validation of one item at the head of the loop body
Validated(item, cwd) ==
    is_safe_to_delete(pkg_manager, home, cwd, item.path)

\* the rejected branch leaving the loop body without counting the item
Rejected_NotCounted ==
    UNCHANGED << fail_count, success_count, errors, dispatched, executed,
                 removed >>

\* the branch of the loop body for an item that fails the validation
Rejected ==
    /\ fail_count' = fail_count + 1
    /\ UNCHANGED << success_count, errors, dispatched, executed, removed >>

\* one iteration of the loop of clean: validate the item, then dispatch it
CleanItem ==
    /\ pc = "clean"
    /\ idx <= Len(selected_items)
    /\ \E cwd \in Cwds(home) :
        LET item == selected_items[idx]
        IN IF ~Validated(item, cwd)
           THEN Rejected
           ELSE IF item.system
           THEN \E outcome \in RunOutcomes :
                  LET r == clean_system(pkg_manager, item.path, outcome)
                  IN /\ executed' = executed \o
                            [k \in 1..Len(r.ran) |->
                                 [item |-> idx, cmd |-> r.ran[k],
                                  ended |-> outcome]]
                     /\ dispatched' = Append(dispatched,
                            [item |-> idx, to |-> "_clean_system",
                             ret |-> r.ret])
                     /\ Tally(r.ret)
                     /\ UNCHANGED removed
           ELSE \E view \in FsViews :
                  LET r == clean_user(item.path, view)
                  IN /\ removed' = removed \o
                            [k \in 1..Len(r.gone) |->
                                 [item |-> idx, path |-> r.gone[k]]]
                     /\ dispatched' = Append(dispatched,
                            [item |-> idx, to |-> "_clean_user",
                             ret |-> r.ret])
                     /\ Tally(r.ret)
                     /\ UNCHANGED executed
    /\ idx' = idx + 1
    /\ UNCHANGED << pkg_manager, home, pc, last_call, selected_items >>
    /\ UNCHANGED schedVars

\* the loop is over: return success_count, fail_count, errors
CleanReturn ==
    /\ pc = "clean"
    /\ idx > Len(selected_items)
    /\ last_call' = [op |-> "clean",
                     ret |-> << success_count, fail_count, errors >>]
    /\ pc' = "returned"
    /\ UNCHANGED << pkg_manager, home >>
    /\ UNCHANGED cleanVars
    /\ UNCHANGED schedVars

Next ==
    \/ IsSafeToDelete
    \/ CleanCall
    \/ CleanItem
    \/ CleanReturn

Spec == Init /\ [][Next]_vars

(***************************************************************************)
(* Properties of is_safe_to_delete.                                        *)
(***************************************************************************)
\* is_safe_to_delete has been called and has returned
Queried == pc = "returned" /\ last_call.op = "is_safe_to_delete"

\* the canonical form of the path that was asked about
QueriedPath == abspath(last_call.cwd, last_call.path)

\* the critical system prefixes
ForbiddenPrefixes ==
    {"/bin", "/boot", "/dev", "/etc", "/lib", "/proc", "/sys",
     "/usr/bin", "/usr/lib", "/usr/sbin"}

\* the marker paths the manager registers: the entries for orphan removal
MarkerPaths(pm) ==
    {get_package_cache_paths(pm)[k][2] :
        k \in {j \in 1..Len(get_package_cache_paths(pm)) :
                  get_package_cache_paths(pm)[j][1] = "cat_autoremove"}}

\* the cache directories the manager registers
CacheDirs(pm) ==
    {get_package_cache_paths(pm)[k][2] :
        k \in {j \in 1..Len(get_package_cache_paths(pm)) :
                  get_package_cache_paths(pm)[j][1] = "cat_pkg_cache"}}

\* the real directories of the allow-list of the session
AllowedDirs(pm, h) ==
    {"/var/log", "/var/lib/systemd/coredump", h \o "/.cache"} \cup CacheDirs(pm)

\* p is the directory d or lies below it behind a separator
EqualOrBelow(p, d) == p = d \/ StartsWith(p, d \o "/")

C2_MarkersAccepted ==
    (Queried /\ last_call.path \in MarkerPaths(pkg_manager))
        => last_call.ret = TRUE

\* C3: a path that has a marker as a proper string prefix (or as parent
\* directory) is rejected, and so is every other path under /usr/bin.
C3_MarkerPrefixRejected ==
    Queried =>
        /\ (\E m \in MarkerPaths(pkg_manager) :
                StartsWith(QueriedPath, m) /\ QueriedPath # m)
              => last_call.ret = FALSE
        /\ (StartsWith(QueriedPath, "/usr/bin")
                /\ QueriedPath \notin MarkerPaths(pkg_manager))
              => last_call.ret = FALSE

\* C3 witness: /usr/bin/aptitude, which has the apt marker as a string
\* prefix, was asked about under apt.
C3_Witness ==
    /\ Queried
    /\ pkg_manager = "apt"
    /\ QueriedPath = "/usr/bin/aptitude"
    /\ last_call.ret = FALSE

\* C4: a path is accepted through a real allowed directory only when its
\* canonical form equals the directory or lies below it behind a separator.
C4_SeparatorBounded ==
    (Queried /\ last_call.ret = TRUE)
        => \E d \in AllowedDirs(pkg_manager, home) : EqualOrBelow(QueriedPath, d)

\* C5: there is no default allow: a path that is neither equal to nor below
\* an entry of the allow-list of the session (directories and markers) is
\* rejected.
C5_NoDefaultAllow ==
    (Queried /\ ~\E a \in AllowedDirs(pkg_manager, home)
                             \cup MarkerPaths(pkg_manager) :
                    EqualOrBelow(QueriedPath, a))
        => last_call.ret = FALSE

\* C6: the verdict for a path is the verdict of its normalized absolute
\* form, and D/../../etc/passwd is rejected for every allowed directory D.
C6_TraversalRejected ==
    Queried =>
        /\ last_call.ret =
               is_safe_to_delete(pkg_manager, home, last_call.cwd, QueriedPath)
        /\ (\E d \in AllowedDirs(pkg_manager, home)
                         \cup MarkerPaths(pkg_manager) :
                last_call.path = d \o "/../../etc/passwd")
              => last_call.ret = FALSE

\* C6 witness: the traversal out of the coredump directory, whose literal
\* string starts with an allowed directory and whose canonical form is
\* neither forbidden nor allowed, was asked about and rejected.
C6_Witness ==
    /\ Queried
    /\ last_call.path = "/var/lib/systemd/coredump/../../etc/passwd"
    /\ QueriedPath = "/var/lib/etc/passwd"
    /\ last_call.ret = FALSE

(***************************************************************************)
(* Properties of clean.                                                    *)
(***************************************************************************)
\* clean has returned
Cleaned == pc = "returned" /\ last_call.op = "clean"

\* the positions of the batch the loop has gone through
Processed == 1..(idx - 1)

\* the verdict of the validator on the path of item i (the paths of the
\* batch are absolute, the working directory plays no part)
ItemSafe(i) ==
    is_safe_to_delete(pkg_manager, home, "/", selected_items[i].path)

\* the items for which a command was executed, a file was removed, or one
\* of the two cleaning functions was entered
ItemsExecuted == {executed[k].item : k \in 1..Len(executed)}

ItemsRemoved == {removed[k].item : k \in 1..Len(removed)}

ItemsDispatched == {dispatched[k].item : k \in 1..Len(dispatched)}

\* C7: for an item whose path fails is_safe_to_delete, clean executes no
\* command, removes no file and enters neither cleaning function, whether
\* the item is marked system or user.
C7_RejectedUntouched ==
    \A i \in 1..Len(selected_items) :
        ~ItemSafe(i) => i \notin ItemsExecuted \cup ItemsRemoved \cup ItemsDispatched

\* C7 witness: under apt, a batch holding the apt marker as a system item
\* (rejected, although the resolver has a command for it) has been cleaned.
C7_Witness ==
    /\ Cleaned
    /\ pkg_manager = "apt"
    /\ \E i \in 1..Len(selected_items) :
          /\ selected_items[i] = [path |-> "/usr/bin/apt", system |-> TRUE]
          /\ get_clean_command(pkg_manager, selected_items[i].path) # << >>
          /\ ~ItemSafe(i)
    /\ last_call.ret[2] >= 1

\* C8: every failed item contributes exactly one message to the returned
\* error list, rejected items included: len(error_messages) = fail_count.
C8_OneErrorPerFailure ==
    Cleaned => Len(last_call.ret[3]) = last_call.ret[2]

\* C9: clean goes through every selected item exactly once, whatever the
\* outcomes of the items before it (each item is either rejected or handed
\* to one cleaning function once), and returns with success_count +
\* fail_count equal to the number of selected items; for the empty
\* selection it returns (0, 0, []).
C9_EveryItemCounted ==
    /\ pc = "clean" =>
          /\ idx \in 1..(Len(selected_items) + 1)
          /\ success_count + fail_count = idx - 1
    /\ pc \in {"clean", "returned"} =>
          \A i \in Processed :
              Cardinality({k \in 1..Len(dispatched) : dispatched[k].item = i})
                  = IF ItemSafe(i) THEN 1 ELSE 0
    /\ Cleaned =>
          /\ Processed = 1..Len(selected_items)
          /\ last_call.ret[1] + last_call.ret[2] = Len(selected_items)
          /\ selected_items = << >> => last_call.ret = << 0, 0, << >> >>

\* C9 witness: a batch of MaxItems items has been cleaned whose first item
\* was rejected, with a later item that failed in its cleaning function or
\* succeeded, and whose last item succeeded.
C9_Witness ==
    /\ Cleaned
    /\ Len(selected_items) = MaxItems
    /\ ~ItemSafe(1)
    /\ \E k \in 1..Len(dispatched) :
          dispatched[k].item = Len(selected_items) /\ dispatched[k].ret.success
    /\ last_call.ret[1] >= 1
    /\ last_call.ret[2] >= 1
    /\ last_call.ret[1] + last_call.ret[2] = MaxItems

\* the command the resolver or the generic table gives for a path
ResolvedCommand(path) ==
    IF get_clean_command(pkg_manager, path) # << >>
    THEN get_clean_command(pkg_manager, path)
    ELSE IF path = "/var/log" THEN <<"pkexec", "sh", "-c", bash_cmd>>
    ELSE IF path = "/var/lib/systemd/coredump"
    THEN <<"pkexec", "sh", "-c", "rm -rf /var/lib/systemd/coredump/*">>
    ELSE << >>

\* C10: a command is executed only for an item marked system, and it is
\* the command resolved for the exact path of the item; a system item for
\* which nothing resolves fails with the unknown-system-path error with
\* nothing executed or removed; no file is removed for a system item.
C10_SystemByCommandOnly ==
    /\ \A k \in 1..Len(executed) :
          /\ selected_items[executed[k].item].system
          /\ executed[k].cmd # << >>
          /\ executed[k].cmd = ResolvedCommand(selected_items[executed[k].item].path)
    /\ \A k \in 1..Len(removed) : ~selected_items[removed[k].item].system
    /\ \A k \in 1..Len(dispatched) :
          LET item == selected_items[dispatched[k].item]
          IN (item.system /\ ResolvedCommand(item.path) = << >>)
                => /\ dispatched[k].ret =
                          Fail(Msg("err_unknown_sys_path", << item.path >>))
                   /\ dispatched[k].item \notin ItemsExecuted \cup ItemsRemoved

\* C10 witness: a batch has been cleaned in which a validated system item
\* had no command (the thumbnails directory marked system) and another
\* system item had its command executed.
C10_Witness ==
    /\ Cleaned
    /\ \E k \in 1..Len(dispatched) :
          /\ selected_items[dispatched[k].item].system
          /\ ResolvedCommand(selected_items[dispatched[k].item].path) = << >>
          /\ dispatched[k].ret.error_msg.key = "err_unknown_sys_path"
    /\ executed # << >>

(***************************************************************************)
(* Properties of _clean_system.                                            *)
(***************************************************************************)
\* the return value of the dispatch of the item a command was executed for
ReturnOf(i) ==
    dispatched[CHOOSE k \in 1..Len(dispatched) : dispatched[k].item = i].ret

FsEntries ==
    {[kind |-> "absent", bytes |-> 0], [kind |-> "file", bytes |-> MaxSize]}
    \cup [kind : {"dir"}, bytes : 0..MaxSize]

\* os.path.exists
exists(entry) == entry.kind # "absent"

\* get_size that counts the length of a regular file
get_size_FileBytes(entry) == entry.bytes

\* get_size: os.walk yields nothing for a path that is not a directory
get_size(entry) == IF entry.kind = "dir" THEN entry.bytes ELSE 0

\* the labels of format_size
power_labels == <<"", "K", "M", "G", "T">>

\* the while loop of format_size: the number of divisions by 2 ** 10
RECURSIVE Divisions(_, _)
Divisions(size, n) ==
    IF size >= 1024 /\ n < 4 THEN Divisions(size \div 1024, n + 1) ELSE n

RECURSIVE Power(_, _)
Power(b, n) == IF n = 0 THEN 1 ELSE b * Power(b, n - 1)

\* format_size: the size in hundredths of its unit, rounded, then "%.2f"
format_size(size) ==
    IF size < 0 THEN "0.00 B"
    ELSE LET n == Divisions(size, 0)
             unit == Power(1024, n)
             hundredths == (200 * size + unit) \div (2 * unit)
             cents == hundredths % 100
         IN ToString(hundredths \div 100) \o "."
              \o (IF cents < 10 THEN "0" ELSE "") \o ToString(cents)
              \o " " \o power_labels[n + 1] \o "B"

(***************************************************************************)
(* SystemCleaner.__init__ and SystemCleaner.scan.                          *)
(***************************************************************************)
\* the universal categories: name, path, is_system, description
BaseCategories(h) ==
    << <<"cat_sys_logs", "/var/log", TRUE, "desc_sys_logs">>,
       <<"cat_coredumps", "/var/lib/systemd/coredump", TRUE, "desc_coredumps">>,
       <<"cat_thumbnails", expanduser(h, "~/.cache/thumbnails"), FALSE,
         "desc_thumbnails">>,
       <<"cat_firefox", expanduser(h, "~/.cache/mozilla"), FALSE,
         "desc_firefox">>,
       <<"cat_chrome", expanduser(h, "~/.cache/google-chrome"), FALSE,
         "desc_chrome">> >>

\* the loop that inserts each entry of the package manager at position 0
RECURSIVE InsertFirst(_, _)
InsertFirst(cats, pkg_paths) ==
    IF pkg_paths = << >> THEN cats
    ELSE LET p == Head(pkg_paths)
         IN InsertFirst(<< <<p[1], p[2], TRUE, p[3]>> >> \o cats,
                        Tail(pkg_paths))

\* self.categories after construction
categories(pm, h) == InsertFirst(BaseCategories(h), get_package_cache_paths(pm))

\* the paths of the catalog
CatalogPaths(pm, h) == {categories(pm, h)[k][2] : k \in 1..Len(categories(pm, h))}

\* the filesystems a scan can find under the catalog
FsStates(pm, h) == [CatalogPaths(pm, h) -> FsEntries]

\* one entry of the result of scan
ScanResult(cat, f) ==
    [category |-> cat[1], path |-> cat[2],
     size_str |-> format_size(get_size(f[cat[2]])),
     size_bytes |-> get_size(f[cat[2]]),
     system |-> cat[3], desc |-> cat[4]]

\* scan that surfaces every category whose path exists
scan_NoSizeTest(cats, f) ==
    LET Found(cat) == exists(f[cat[2]])
        found == SelectSeq(cats, Found)
    IN [k \in 1..Len(found) |-> ScanResult(found[k], f)]

\* scan: the categories whose path exists and whose size is not zero
scan(cats, f) ==
    LET Found(cat) == exists(f[cat[2]]) /\ get_size(f[cat[2]]) > 0
        found == SelectSeq(cats, Found)
    IN [k \in 1..Len(found) |-> ScanResult(found[k], f)]

\* a cleaner on a filesystem, before any call
InitScan ==
    /\ pkg_manager \in PkgManagers
    /\ home \in Homes
    /\ CleanerIdle
    /\ SchedulerIdle
    /\ fs \in FsStates(pkg_manager, home)
    /\ settings = defaults
    /\ now = 0

\* a call of scan() and its return value
Scan ==
    /\ pc = "idle"
    /\ scan_results' = scan(categories(pkg_manager, home), fs)
    /\ last_call' = [op |-> "scan", ret |-> scan_results']
    /\ pc' = "returned"
    /\ UNCHANGED << pkg_manager, home, selected_items, idx, success_count,
                    fail_count, errors, dispatched, executed, removed >>
    /\ UNCHANGED << fs, settings, now, last_disk_check_date, evaluation,
                    threads, disk_triggers, history, maint >>

NextScan == Scan

SpecScan == InitScan /\ [][NextScan]_vars

(***************************************************************************)
(* Properties of scan.                                                     *)
(***************************************************************************)
\* scan has been called and has returned
Scanned == pc = "returned" /\ last_call.op = "scan"

\* the positions of a catalog whose path exists with a size above zero
Surfaced(cats) ==
    {k \in 1..Len(cats) :
        fs[cats[k][2]].kind # "absent" /\ get_size(fs[cats[k][2]]) > 0}

\* the i-th smallest member of a set of positions
Nth(S, i) == CHOOSE k \in S : Cardinality({j \in S : j < k}) = i - 1

\* C12: scan returns, in catalog order, exactly one result for each
\* category whose path exists and whose computed size is above zero, and
\* none for any other category; every result has size_bytes > 0.
C12_ScanSurfacesNonEmpty ==
    Scanned =>
        LET cats == categories(pkg_manager, home)
            S == Surfaced(cats)
        IN /\ last_call.ret = scan_results
           /\ Len(scan_results) = Cardinality(S)
           /\ \A i \in 1..Len(scan_results) :
                 LET cat == cats[Nth(S, i)]
                 IN /\ scan_results[i].category = cat[1]
                    /\ scan_results[i].path = cat[2]
                    /\ scan_results[i].system = cat[3]
                    /\ scan_results[i].size_bytes = get_size(fs[cat[2]])
                    /\ scan_results[i].size_bytes > 0

\* C12 witness: with a package cache that holds bytes, an empty /var/log
\* and the marker of apt present as a file, scan has returned exactly the
\* package-cache result.
C12_Witness ==
    /\ Scanned
    /\ pkg_manager = "apt"
    /\ fs["/var/cache/apt/archives"] = [kind |-> "dir", bytes |-> MaxSize]
    /\ fs["/var/log"] = [kind |-> "dir", bytes |-> 0]
    /\ fs["/usr/bin/apt"].kind = "file"
    /\ Len(scan_results) = 1
    /\ scan_results[1].category = "cat_pkg_cache"

(***************************************************************************)
(* The clock and the stored timestamps.                                    *)
(***************************************************************************)
\* datetime.date.today() at time t
today(t) == t \div TicksPerDay

\* strftime("%Y-%m-%d %H:%M:%S"): the date, then the time of the day
strftime(t) == << t \div TicksPerDay, t % TicksPerDay >>

\* the strings strptime("%Y-%m-%d %H:%M:%S") accepts
Parses(str) ==
    /\ Len(str) = 2
    /\ str[1] \in Nat
    /\ str[2] \in 0..(TicksPerDay - 1)

\* strptime("%Y-%m-%d %H:%M:%S") of a string it accepts
strptime(str) == str[1] * TicksPerDay + str[2]

\* timedelta.days: the whole days of a difference of two times
days(delta) == delta \div TicksPerDay

(***************************************************************************)
(* SettingsManager.is_maintenance_due.                                     *)
(***************************************************************************)
\* the interval check counting calendar dates instead of whole days
is_maintenance_due_ByDate(s, t) ==
    IF ~s.auto_maintenance_enabled THEN FALSE
    ELSE IF s.last_maintenance_date = Never THEN TRUE
    ELSE IF ~Parses(s.last_maintenance_date) THEN TRUE
    ELSE today(t) - s.last_maintenance_date[1] >= s.maintenance_frequency_days

\* is_maintenance_due at time t
is_maintenance_due(s, t) ==
    IF ~s.auto_maintenance_enabled THEN FALSE
    ELSE IF s.last_maintenance_date = Never THEN TRUE
    ELSE IF ~Parses(s.last_maintenance_date) THEN TRUE
    ELSE days(t - strptime(s.last_maintenance_date))
            >= s.maintenance_frequency_days

(***************************************************************************)
(* AutoMaintenanceManager.can_run_maintenance.                             *)
(***************************************************************************)
\* the return of an evaluation: the value, the line of the return
\* statement, last_disk_check_date afterwards, and the sensors it read
Returned(ret, line, ldc, probes) ==
    [ret |-> ret, line |-> line, last_disk_check_date |-> ldc,
     probes |-> probes]

\* the sensors read by the power gate
PowerProbe(s) == IF s.check_ac_power THEN <<"is_on_ac_power">> ELSE << >>

\* whether the disk branch measures the disk
DiskBranch(s, ldc, t, in) ==
    in.force_disk_check /\ s.disk_threshold_enabled /\ ldc # today(t)

\* can_run_maintenance with the disk branch ahead of the idle gate
can_run_maintenance_DiskFirst(s, ldc, t, in) ==
    IF ~s.auto_maintenance_enabled
    THEN Returned(FALSE, 77, ldc, << >>)
    ELSE IF s.check_ac_power /\ ~in.on_ac
    THEN Returned(FALSE, 81, ldc, <<"is_on_ac_power">>)
    ELSE IF DiskBranch(s, ldc, t, in) /\ in.usage >= s.disk_threshold_percent
    THEN Returned(TRUE, 94, today(t),
                  PowerProbe(s) \o <<"get_disk_usage_percent">>)
    ELSE IF in.idle < s.idle_threshold_minutes * 60
    THEN Returned(FALSE, 86, ldc, PowerProbe(s) \o <<"get_idle_time_seconds">>)
    ELSE Returned(is_maintenance_due(s, t), 97, ldc,
                  PowerProbe(s) \o <<"get_idle_time_seconds">>
                    \o <<"is_maintenance_due">>)

\* can_run_maintenance firing only above the disk threshold
can_run_maintenance_Above(s, ldc, t, in) ==
    IF ~s.auto_maintenance_enabled
    THEN Returned(FALSE, 77, ldc, << >>)
    ELSE IF s.check_ac_power /\ ~in.on_ac
    THEN Returned(FALSE, 81, ldc, <<"is_on_ac_power">>)
    ELSE IF in.idle < s.idle_threshold_minutes * 60
    THEN Returned(FALSE, 86, ldc, PowerProbe(s) \o <<"get_idle_time_seconds">>)
    ELSE IF DiskBranch(s, ldc, t, in) /\ in.usage > s.disk_threshold_percent
    THEN Returned(TRUE, 94, today(t),
                  PowerProbe(s) \o <<"get_idle_time_seconds">>
                    \o <<"get_disk_usage_percent">>)
    ELSE Returned(is_maintenance_due(s, t), 97, ldc,
                  PowerProbe(s) \o <<"get_idle_time_seconds">>
                    \o (IF DiskBranch(s, ldc, t, in)
                        THEN <<"get_disk_usage_percent">> ELSE << >>)
                    \o <<"is_maintenance_due">>)

\* can_run_maintenance without the assignment of line 93
can_run_maintenance_NoStamp(s, ldc, t, in) ==
    IF ~s.auto_maintenance_enabled
    THEN Returned(FALSE, 77, ldc, << >>)
    ELSE IF s.check_ac_power /\ ~in.on_ac
    THEN Returned(FALSE, 81, ldc, <<"is_on_ac_power">>)
    ELSE IF in.idle < s.idle_threshold_minutes * 60
    THEN Returned(FALSE, 86, ldc, PowerProbe(s) \o <<"get_idle_time_seconds">>)
    ELSE IF DiskBranch(s, ldc, t, in) /\ in.usage >= s.disk_threshold_percent
    THEN Returned(TRUE, 94, ldc,
                  PowerProbe(s) \o <<"get_idle_time_seconds">>
                    \o <<"get_disk_usage_percent">>)
    ELSE Returned(is_maintenance_due(s, t), 97, ldc,
                  PowerProbe(s) \o <<"get_idle_time_seconds">>
                    \o (IF DiskBranch(s, ldc, t, in)
                        THEN <<"get_disk_usage_percent">> ELSE << >>)
                    \o <<"is_maintenance_due">>)

\* can_run_maintenance storing the date as soon as the disk is measured
can_run_maintenance_StampOnMeasure(s, ldc, t, in) ==
    IF ~s.auto_maintenance_enabled
    THEN Returned(FALSE, 77, ldc, << >>)
    ELSE IF s.check_ac_power /\ ~in.on_ac
    THEN Returned(FALSE, 81, ldc, <<"is_on_ac_power">>)
    ELSE IF in.idle < s.idle_threshold_minutes * 60
    THEN Returned(FALSE, 86, ldc, PowerProbe(s) \o <<"get_idle_time_seconds">>)
    ELSE IF DiskBranch(s, ldc, t, in) /\ in.usage >= s.disk_threshold_percent
    THEN Returned(TRUE, 94, today(t),
                  PowerProbe(s) \o <<"get_idle_time_seconds">>
                    \o <<"get_disk_usage_percent">>)
    ELSE Returned(is_maintenance_due(s, t), 97,
                  IF DiskBranch(s, ldc, t, in) THEN today(t) ELSE ldc,
                  PowerProbe(s) \o <<"get_idle_time_seconds">>
                    \o (IF DiskBranch(s, ldc, t, in)
                        THEN <<"get_disk_usage_percent">> ELSE << >>)
                    \o <<"is_maintenance_due">>)

\* can_run_maintenance(force_disk_check) on settings s, with
\* last_disk_check_date = ldc, at time t, the sensors reading in
can_run_maintenance(s, ldc, t, in) ==
    IF ~s.auto_maintenance_enabled
    THEN Returned(FALSE, 77, ldc, << >>)
    ELSE IF s.check_ac_power /\ ~in.on_ac
    THEN Returned(FALSE, 81, ldc, <<"is_on_ac_power">>)
    ELSE IF in.idle < s.idle_threshold_minutes * 60
    THEN Returned(FALSE, 86, ldc, PowerProbe(s) \o <<"get_idle_time_seconds">>)
    ELSE IF DiskBranch(s, ldc, t, in) /\ in.usage >= s.disk_threshold_percent
    THEN Returned(TRUE, 94, today(t),
                  PowerProbe(s) \o <<"get_idle_time_seconds">>
                    \o <<"get_disk_usage_percent">>)
    ELSE Returned(is_maintenance_due(s, t), 97, ldc,
                  PowerProbe(s) \o <<"get_idle_time_seconds">>
                    \o (IF DiskBranch(s, ldc, t, in)
                        THEN <<"get_disk_usage_percent">> ELSE << >>)
                    \o <<"is_maintenance_due">>)

\* what get_idle_time_seconds and get_disk_usage_percent can return
IdleSeconds == {59, 60}

DiskUsages == {89, 90, 96}

\* the readings of the sensors and the argument of one evaluation
Readings ==
    [force_disk_check : BOOLEAN, on_ac : BOOLEAN, idle : IdleSeconds,
     usage : DiskUsages]

\* the settings a user can have saved
Frequencies == 1..MaxDay

LastRuns == {Never, strftime(1)}

Policies ==
    [auto_maintenance_enabled : BOOLEAN,
     maintenance_frequency_days : Frequencies,
     idle_threshold_minutes : {1},
     disk_threshold_enabled : BOOLEAN,
     disk_threshold_percent : {90},
     check_ac_power : BOOLEAN,
     last_maintenance_date : LastRuns]

\* the last tick of the clock
MaxNow == (MaxDay + 1) * TicksPerDay - 1

\* a scheduler after construction, on the settings of the user
InitSched ==
    /\ pkg_manager = "unknown"
    /\ home \in Homes
    /\ CleanerIdle
    /\ SchedulerIdle
    /\ fs = << >>
    /\ settings \in Policies
    /\ now = 1

\* a call of can_run_maintenance and its return value
Evaluate ==
    /\ pc = "idle"
    /\ maint = NoRun
    /\ \E in \in Readings :
          LET r == can_run_maintenance(settings, last_disk_check_date, now, in)
          IN /\ last_disk_check_date' = r.last_disk_check_date
             /\ evaluation' =
                   [op |-> "can_run_maintenance", in |-> in,
                    before |-> last_disk_check_date, ret |-> r.ret,
                    line |-> r.line, probes |-> r.probes]
             /\ disk_triggers' =
                   IF r.line = 94 THEN Append(disk_triggers, today(now))
                   ELSE disk_triggers
    /\ UNCHANGED << pkg_manager, home, pc, last_call >>
    /\ UNCHANGED cleanVars
    /\ UNCHANGED << fs, scan_results, settings, now, threads, history, maint >>

\* time passes between two calls
Tick ==
    /\ pc = "idle"
    /\ maint = NoRun
    /\ now < MaxNow
    /\ now' = now + 1
    /\ evaluation' = NoEvaluation
    /\ UNCHANGED << pkg_manager, home, pc, last_call >>
    /\ UNCHANGED cleanVars
    /\ UNCHANGED << fs, scan_results, settings, last_disk_check_date, threads,
                    disk_triggers, history, maint >>

NextSched == Evaluate \/ Tick

SpecSched == InitSched /\ [][NextSched]_vars

(***************************************************************************)
(* Properties of can_run_maintenance.                                      *)
(***************************************************************************)
\* can_run_maintenance has just returned
Evaluated == evaluation.op = "can_run_maintenance"

\* the three gates, on the settings and on the readings of the evaluation
Disabled == ~settings.auto_maintenance_enabled

OnBattery == settings.check_ac_power /\ ~evaluation.in.on_ac

NotIdle == evaluation.in.idle < 60 * settings.idle_threshold_minutes

GatedOut == Disabled \/ OnBattery \/ NotIdle

\* the disk threshold applies to the evaluation and is reached
DiskFires ==
    /\ settings.disk_threshold_enabled
    /\ evaluation.in.force_disk_check
    /\ evaluation.before # today(now)
    /\ evaluation.in.usage >= settings.disk_threshold_percent

\* the configured interval has elapsed since the last run, or none was made
IntervalDue ==
    \/ settings.last_maintenance_date = Never
    \/ now - (settings.last_maintenance_date[1] * TicksPerDay
                + settings.last_maintenance_date[2])
          >= settings.maintenance_frequency_days * TicksPerDay

\* C13: an evaluation returns false when auto-maintenance is disabled, or
\* AC power is required and absent, or the idle time is below the
\* threshold; the gates are checked in this order, nothing behind a failed
\* gate is read, and last_disk_check_date is left alone.
C13_GatedOutReturnsFalse ==
    (Evaluated /\ GatedOut) =>
        /\ evaluation.ret = FALSE
        /\ last_disk_check_date = evaluation.before
        /\ Disabled => evaluation.probes = << >>
        /\ (~Disabled /\ OnBattery) => evaluation.probes = <<"is_on_ac_power">>
        /\ (~Disabled /\ ~OnBattery) =>
              evaluation.probes[Len(evaluation.probes)] = "get_idle_time_seconds"
        /\ \A k \in 1..Len(evaluation.probes) :
              evaluation.probes[k]
                 \notin {"get_disk_usage_percent", "is_maintenance_due"}

\* C13 witness: an evaluation has been gated out by the idle time alone
\* while the disk was above the threshold, the disk check was enabled and
\* forced, and maintenance had never run.
C13_Witness ==
    /\ Evaluated
    /\ ~Disabled /\ ~OnBattery /\ NotIdle
    /\ DiskFires
    /\ IntervalDue
    /\ evaluation.ret = FALSE

\* C14: when the gates pass, the disk threshold is enabled, the evaluation
\* is disk-triggered, last_disk_check_date is not today and the usage is at
\* or above the threshold, the evaluation returns true, whether the
\* interval has elapsed or not, and sets last_disk_check_date to today.
C14_DiskPressureAdmits ==
    (Evaluated /\ ~GatedOut /\ DiskFires) =>
        /\ evaluation.ret = TRUE
        /\ last_disk_check_date = today(now)

\* C14 witness: an evaluation at exactly the threshold has returned true
\* on a day after day 0 although the interval had not elapsed.
C14_Witness ==
    /\ Evaluated /\ ~GatedOut /\ DiskFires
    /\ evaluation.in.usage = settings.disk_threshold_percent
    /\ ~IntervalDue
    /\ today(now) > 0
    /\ evaluation.ret = TRUE

\* an evaluation before the last one returned through the disk branch today
TriggeredEarlierToday ==
    \E k \in 1..(Len(disk_triggers) - (IF evaluation.line = 94 THEN 1 ELSE 0)) :
        disk_triggers[k] = today(now)

\* C15: in a sequence of evaluations on one scheduler, at most one per
\* calendar day returns true through the disk branch; after it, an
\* evaluation of the same day does not take the disk branch and returns
\* true only when the interval check is satisfied.
C15_OncePerDay ==
    /\ \A i, j \in 1..Len(disk_triggers) :
          i # j => disk_triggers[i] # disk_triggers[j]
    /\ (Evaluated /\ TriggeredEarlierToday) =>
          /\ evaluation.line # 94
          /\ evaluation.ret => IntervalDue

\* C15 witness: the disk branch has fired on two different days, and a
\* later evaluation of the second day, with the gates passing and the same
\* disk level above the threshold, has returned false.
C15_Witness ==
    /\ Evaluated /\ ~GatedOut
    /\ TriggeredEarlierToday
    /\ Len(disk_triggers) = 2
    /\ settings.disk_threshold_enabled
    /\ evaluation.in.force_disk_check
    /\ evaluation.in.usage >= settings.disk_threshold_percent
    /\ evaluation.ret = FALSE

Threads == 1..MaxThreads

\* a thread about to call can_run_maintenance
Starting == [pc |-> "start"]

\* a thread whose call has returned
Done(ret, line, in, day) ==
    [pc |-> "done", ret |-> ret, line |-> line, in |-> in, today |-> day]

InitConc ==
    /\ pkg_manager = "unknown"
    /\ home \in Homes
    /\ CleanerIdle
    /\ last_disk_check_date = NoDate
    /\ evaluation = NoEvaluation
    /\ threads = [t \in Threads |-> Starting]
    /\ disk_triggers = << >>
    /\ history = << >>
    /\ maint = NoRun
    /\ fs = << >>
    /\ settings \in Policies
    /\ now = 1

\* lines 76 to 91: the gates, then the comparison of last_disk_check_date
Enter(t) ==
    /\ threads[t].pc = "start"
    /\ \E in \in Readings :
          threads' = [threads EXCEPT ![t] =
             IF ~settings.auto_maintenance_enabled
             THEN Done(FALSE, 77, in, today(now))
             ELSE IF settings.check_ac_power /\ ~in.on_ac
             THEN Done(FALSE, 81, in, today(now))
             ELSE IF in.idle < settings.idle_threshold_minutes * 60
             THEN Done(FALSE, 86, in, today(now))
             ELSE IF DiskBranch(settings, last_disk_check_date, now, in)
             THEN [pc |-> "measure", in |-> in, today |-> today(now)]
             ELSE Done(is_maintenance_due(settings, now), 97, in, today(now))]
    /\ UNCHANGED << pkg_manager, home, pc, last_call >>
    /\ UNCHANGED cleanVars
    /\ UNCHANGED << fs, scan_results, settings, now, last_disk_check_date,
                    evaluation, disk_triggers, history, maint >>

\* line 92: the disk is measured and compared with the threshold
Measure(t) ==
    /\ threads[t].pc = "measure"
    /\ threads' = [threads EXCEPT ![t] =
          IF threads[t].in.usage >= settings.disk_threshold_percent
          THEN [pc |-> "stamp", in |-> threads[t].in, today |-> threads[t].today]
          ELSE Done(is_maintenance_due(settings, now), 97, threads[t].in,
                    threads[t].today)]
    /\ UNCHANGED << pkg_manager, home, pc, last_call >>
    /\ UNCHANGED cleanVars
    /\ UNCHANGED << fs, scan_results, settings, now, last_disk_check_date,
                    evaluation, disk_triggers, history, maint >>

\* lines 93 and 94: last_disk_check_date is assigned and True is returned
Stamp(t) ==
    /\ threads[t].pc = "stamp"
    /\ last_disk_check_date' = threads[t].today
    /\ disk_triggers' = Append(disk_triggers, threads[t].today)
    /\ threads' = [threads EXCEPT ![t] =
          Done(TRUE, 94, threads[t].in, threads[t].today)]
    /\ UNCHANGED << pkg_manager, home, pc, last_call >>
    /\ UNCHANGED cleanVars
    /\ UNCHANGED << fs, scan_results, settings, now, evaluation, history,
                    maint >>

NextConc ==
    \/ \E t \in Threads : Enter(t)
    \/ \E t \in Threads : Measure(t)
    \/ \E t \in Threads : Stamp(t)

SpecConc == InitConc /\ [][NextConc]_vars

\* the threads whose evaluation returned true through the disk branch on
\* day d
AdmittedByDisk(d) ==
    {t \in Threads : /\ threads[t].pc = "done"
                     /\ threads[t].line = 94
                     /\ threads[t].today = d}

\* C16: under any interleaving of concurrent evaluations on one scheduler,
\* at most one evaluation per calendar day returns true through the
\* disk-threshold branch.
C16_OncePerDayConcurrent ==
    \A d \in 0..MaxDay : Cardinality(AdmittedByDisk(d)) <= 1

(***************************************************************************)
(* HistoryManager.add_entry.                                               *)
(***************************************************************************)
\* ", ".join(categories)
RECURSIVE JoinComma(_)
JoinComma(strs) ==
    IF Len(strs) = 0 THEN ""
    ELSE IF Len(strs) = 1 THEN strs[1]
    ELSE strs[1] \o ", " \o JoinComma(Tail(strs))

\* history[:100]
Truncate(entries) ==
    SubSeq(entries, 1, IF Len(entries) < 100 THEN Len(entries) ELSE 100)

\* the file after add_entry(categories, total_freed_str, status) at time t
add_entry(entries, cats, total_freed_str, status, t) ==
    Truncate(<< [date |-> strftime(t), categories |-> JoinComma(cats),
                 total_freed |-> total_freed_str, status |-> status] >>
             \o entries)

(***************************************************************************)
(* AutoMaintenanceManager.run_maintenance, called by the periodic handler  *)
(* check_auto_maintenance when can_run_maintenance returns true.           *)
(***************************************************************************)
\* the list comprehension of line 112 keeping every item
UserSpace_All(results) == results

\* line 112: the items of the scan that are not marked system
UserSpace(results) ==
    LET IsUser(item) == ~item.system IN SelectSeq(results, IsUser)

\* the early returns with only the test of line 105
NothingToDo_ScanOnly(results) == results = << >>

\* lines 105 and 114: the early returns of run_maintenance
NothingToDo(results) == results = << >> \/ UserSpace(results) = << >>

\* the test of line 120 never taken
NoSuccess_Never(count) == FALSE

\* line 120: no item was cleaned
NoSuccess(count) == count = 0

\* line 123
CategoriesOf(items) == [k \in 1..Len(items) |-> items[k].category]

\* line 124
RECURSIVE TotalBytes(_)
TotalBytes(items) ==
    IF items = << >> THEN 0
    ELSE Head(items).size_bytes + TotalBytes(Tail(items))

\* the package managers of the scheduled runs
MaintManagers == {"apt", "unknown"}

\* the filesystems of the scheduled runs: the system paths all absent or
\* all present, each user path absent, empty or holding bytes
SystemEntry(pm, p, present) ==
    IF ~present THEN [kind |-> "absent", bytes |-> 0]
    ELSE IF p \in MarkerPaths(pm) THEN [kind |-> "file", bytes |-> MaxSize]
    ELSE [kind |-> "dir", bytes |-> MaxSize]

UserPaths(pm, h) ==
    {categories(pm, h)[k][2] :
        k \in {j \in 1..Len(categories(pm, h)) : ~categories(pm, h)[j][3]}}

UserEntries ==
    {[kind |-> "absent", bytes |-> 0], [kind |-> "dir", bytes |-> 0],
     [kind |-> "dir", bytes |-> MaxSize]}

MaintFsStates(pm, h) ==
    {[p \in CatalogPaths(pm, h) |->
         IF p \in UserPaths(pm, h) THEN u[p] ELSE SystemEntry(pm, p, present)] :
       u \in [UserPaths(pm, h) -> UserEntries], present \in BOOLEAN}

\* the settings under which the handler is checked: auto-maintenance and
\* the disk threshold enabled, AC power not required
MaintPolicies ==
    {p \in Policies : /\ p.auto_maintenance_enabled
                      /\ p.disk_threshold_enabled
                      /\ ~p.check_ac_power}

\* the readings of the handler, which always forces the disk check
MaintReadings == {in \in Readings : in.force_disk_check /\ in.on_ac}

\* an entry written by an earlier run
OldEntry ==
    [date |-> strftime(0), categories |-> "cat_thumbnails",
     total_freed |-> format_size(MaxSize), status |-> "status_success"]

InitMaint ==
    /\ pkg_manager \in MaintManagers
    /\ home \in Homes
    /\ CleanerIdle
    /\ last_disk_check_date = NoDate
    /\ evaluation = NoEvaluation
    /\ threads = << >>
    /\ disk_triggers = << >>
    /\ history = << OldEntry >>
    /\ maint = NoRun
    /\ fs \in MaintFsStates(pkg_manager, home)
    /\ settings \in MaintPolicies
    /\ now = TicksPerDay + 1

\* check_auto_maintenance: can_run_maintenance(force_disk_check=True) and,
\* when it returns true, run_maintenance up to its call of clean
CheckAutoMaintenance ==
    /\ pc = "idle"
    /\ maint = NoRun
    /\ \E in \in MaintReadings :
          LET r == can_run_maintenance(settings, last_disk_check_date, now, in)
              results == scan(categories(pkg_manager, home), fs)
              to_clean == UserSpace(results)
              before == [history |-> history,
                         last_maintenance_date |-> settings.last_maintenance_date]
          IN /\ last_disk_check_date' = r.last_disk_check_date
             /\ evaluation' =
                   [op |-> "can_run_maintenance", in |-> in,
                    before |-> last_disk_check_date, ret |-> r.ret,
                    line |-> r.line, probes |-> r.probes]
             /\ disk_triggers' =
                   IF r.line = 94 THEN Append(disk_triggers, today(now))
                   ELSE disk_triggers
             /\ IF ~r.ret
                THEN /\ maint' = [pc |-> "skipped"]
                     /\ UNCHANGED << pc, last_call, selected_items,
                                     scan_results >>
                ELSE IF NothingToDo(results)
                THEN /\ maint' = [pc |-> "done", ret |-> None,
                                  before |-> before]
                     /\ scan_results' = results
                     /\ UNCHANGED << pc, last_call, selected_items >>
                ELSE /\ maint' = [pc |-> "cleaning", before |-> before]
                     /\ scan_results' = results
                     /\ selected_items' = to_clean
                     /\ last_call' = [op |-> "clean"]
                     /\ pc' = "clean"
    /\ idx' = 1
    /\ success_count' = 0
    /\ fail_count' = 0
    /\ errors' = << >>
    /\ UNCHANGED << pkg_manager, home, dispatched, executed, removed >>
    /\ UNCHANGED << fs, settings, now, threads, history >>

\* run_maintenance after clean has returned: lines 120 to 144
MaintenanceDone ==
    /\ maint.pc = "cleaning"
    /\ pc = "returned"
    /\ LET success == last_call.ret[1]
           to_clean == selected_items
           categories_cleaned == CategoriesOf(to_clean)
           freed_str == format_size(TotalBytes(to_clean))
           date_str == strftime(now)
       IN IF NoSuccess(success)
          THEN /\ maint' = [pc |-> "done", ret |-> None,
                            before |-> maint.before]
               /\ UNCHANGED << history, settings >>
          ELSE /\ history' = add_entry(history,
                      categories_cleaned \o <<"settings_auto_maintenance">>,
                      freed_str, "status_success", now)
               /\ settings' = [settings EXCEPT
                                  !.last_maintenance_date = date_str]
               /\ maint' = [pc |-> "done",
                            ret |-> [date |-> date_str, freed |-> freed_str,
                                     categories |-> categories_cleaned],
                            before |-> maint.before]
    /\ UNCHANGED << pkg_manager, home, pc, last_call >>
    /\ UNCHANGED cleanVars
    /\ UNCHANGED << fs, scan_results, now, last_disk_check_date, evaluation,
                    threads, disk_triggers >>

NextMaint ==
    \/ CheckAutoMaintenance
    \/ CleanItem
    \/ CleanReturn
    \/ MaintenanceDone

SpecMaint == InitMaint /\ [][NextMaint]_vars

(***************************************************************************)
(* Properties of run_maintenance.                                          *)
(***************************************************************************)
\* run_maintenance has been called
RunStarted == maint.pc \in {"cleaning", "done"}

\* run_maintenance has returned
RunReturned == maint.pc = "done"

\* the scan of the run holds an item marked system, or a user-space item
ScanHasSystem == \E k \in 1..Len(scan_results) : scan_results[k].system

ScanHasUser == \E k \in 1..Len(scan_results) : ~scan_results[k].system

\* C18: a scheduled run hands to clean only items with system = false: no
\* item marked system is cleaned, no command is executed, and the items
\* handed over are the user-space items of the scan, in their order.
C18_UserSpaceOnly ==
    RunStarted =>
        /\ \A k \in 1..Len(selected_items) : ~selected_items[k].system
        /\ \A k \in 1..Len(dispatched) : dispatched[k].to = "_clean_user"
        /\ executed = << >>
        /\ \A k \in 1..Len(selected_items) :
              \E j \in 1..Len(scan_results) : scan_results[j] = selected_items[k]
        /\ Len(selected_items)
              = Cardinality({j \in 1..Len(scan_results) : ~scan_results[j].system})

\* C18 witness: a run whose scan held system items next to user-space
\* items has returned after cleaning the user-space items.
C18_Witness ==
    /\ RunReturned
    /\ ScanHasSystem
    /\ Len(selected_items) >= 2
    /\ Len(dispatched) = Len(selected_items)
    /\ removed # << >>

\* C19: when the scan is empty or holds no user-space item, run_maintenance
\* returns None without calling clean, without a new history record and
\* with last_maintenance_date unchanged.
C19_NothingToDo ==
    (RunStarted /\ ~ScanHasUser) =>
        /\ RunReturned
        /\ maint.ret = None
        /\ pc = "idle"
        /\ last_call = NoCall
        /\ selected_items = << >>
        /\ dispatched = << >> /\ executed = << >> /\ removed = << >>
        /\ history = maint.before.history
        /\ settings.last_maintenance_date = maint.before.last_maintenance_date

\* C19 witness: a run admitted by the disk threshold found only system
\* items in its scan and returned None.
C19_Witness ==
    /\ RunReturned
    /\ evaluation.line = 94
    /\ ScanHasSystem /\ ~ScanHasUser
    /\ maint.ret = None

\* at least one item of the run was cleaned successfully
SomeSuccess == \E k \in 1..Len(dispatched) : dispatched[k].ret.success

Binaries == {"apt-get", "pacman", "dnf", "zypper", "yum"}

\* _detect_pkg_manager, given the binaries found on the PATH
detect_pkg_manager(installed) ==
    IF "apt-get" \in installed THEN "apt"
    ELSE IF "pacman" \in installed THEN "pacman"
    ELSE IF "dnf" \in installed THEN "dnf"
    ELSE IF "zypper" \in installed THEN "zypper"
    ELSE IF "yum" \in installed THEN "yum"
    ELSE "unknown"

InitDistro ==
    /\ pkg_manager \in {detect_pkg_manager(b) : b \in SUBSET Binaries}
    /\ home \in Homes
    /\ CleanerIdle
    /\ SchedulerIdle
    /\ fs = << >>
    /\ settings = defaults
    /\ now = 0

\* a call of get_package_cache_paths() and its return value
GetPackageCachePaths ==
    /\ pc = "idle"
    /\ last_call' = [op |-> "get_package_cache_paths",
                     ret |-> get_package_cache_paths(pkg_manager)]
    /\ pc' = "returned"
    /\ UNCHANGED << pkg_manager, home >>
    /\ UNCHANGED cleanVars
    /\ UNCHANGED schedVars

\* a call of get_clean_command(path) and its return value
GetCleanCommand ==
    /\ pc = "idle"
    /\ \E path \in QueryPaths(home) :
          last_call' = [op |-> "get_clean_command", path |-> path,
                        ret |-> get_clean_command(pkg_manager, path)]
    /\ pc' = "returned"
    /\ UNCHANGED << pkg_manager, home >>
    /\ UNCHANGED cleanVars
    /\ UNCHANGED schedVars

NextDistro == GetPackageCachePaths \/ GetCleanCommand

SpecDistro == InitDistro /\ [][NextDistro]_vars

(***************************************************************************)
(* Properties of the package-manager tables.                               *)
(***************************************************************************)
\* the paths of a table under a key
PathsUnder(table, key) ==
    {table[k][2] : k \in {j \in 1..Len(table) : table[j][1] = key}}

\* C21: for every manager detection can return other than "unknown", the
\* table of get_package_cache_paths holds one cache directory and one
\* marker for the removal of orphaned packages; for "unknown" it is empty.
C21_TablePerManager ==
    (pc = "returned" /\ last_call.op = "get_package_cache_paths") =>
        IF pkg_manager = "unknown"
        THEN last_call.ret = << >>
        ELSE /\ Len(last_call.ret) = 2
             /\ Cardinality(PathsUnder(last_call.ret, "cat_pkg_cache")) = 1
             /\ Cardinality(PathsUnder(last_call.ret, "cat_autoremove")) = 1

\* the entries of the table of the manager of the session
OwnTable ==
    {get_package_cache_paths(pkg_manager)[k][2] :
        k \in 1..Len(get_package_cache_paths(pkg_manager))}

\* get_clean_command has been called and has returned
Resolved == pc = "returned" /\ last_call.op = "get_clean_command"

\* C22 as stated: get_clean_command(path) is non-empty exactly when path
\* is an entry, cache directory or marker, of the table of the manager.
C22_CommandIffOwnEntry ==
    Resolved => (last_call.ret # << >> <=> last_call.path \in OwnTable)

\* C22 amended: get_clean_command(path) is non-empty exactly when path is
\* an entry of the table of the manager other than the marker of zypper,
\* /usr/bin/zypper; for that marker and for every other input, a path of
\* another manager included, it is empty.
C22_CommandIffOwnEntryButZypperMarker ==
    Resolved =>
        (last_call.ret # << >>
           <=> /\ last_call.path \in OwnTable
               /\ last_call.path # "/usr/bin/zypper")

\* C22 witness: under pacman, the cache directory of apt has been asked
\* about and nothing was resolved.
C22_Witness ==
    /\ Resolved
    /\ pkg_manager = "pacman"
    /\ last_call.path = "/var/cache/apt/archives"
    /\ last_call.ret = << >>

(***************************************************************************)
(* Properties of the record of a scheduled run.                            *)
(***************************************************************************)
\* the overall status the counts of a batch stand for
StatusOf(success, fail) ==
    IF fail = 0 THEN "status_success"
    ELSE IF success > 0 THEN "status_partial"
    ELSE "status_failed"

\* run_maintenance has returned a summary and written its record
Recorded == RunReturned /\ maint.ret # None

\* C23: the history record of a completed batch carries the status its
\* counts stand for: success when no item failed, partial when some
\* succeeded and some failed, failed when none succeeded.
C23_StatusFromCounts ==
    Recorded =>
        history[1].status = StatusOf(last_call.ret[1], last_call.ret[2])

\* the positions of the batch whose cleaning succeeded
Succeeded ==
    {i \in 1..Len(selected_items) :
        \E k \in 1..Len(dispatched) :
            dispatched[k].item = i /\ dispatched[k].ret.success}

\* the sum of size_bytes over a set of positions of the batch
RECURSIVE BytesOf(_)
BytesOf(S) ==
    IF S = {} THEN 0
    ELSE LET i == CHOOSE j \in S : TRUE
         IN selected_items[i].size_bytes + BytesOf(S \ {i})

\* C27: the summary of run_maintenance and the history record name as
\* categories and count as bytes freed only the items whose cleaning
\* succeeded.
C27_SummaryOfSucceeded ==
    Recorded =>
        /\ Len(maint.ret.categories) = Cardinality(Succeeded)
        /\ \A k \in 1..Len(maint.ret.categories) :
              \E i \in Succeeded :
                  selected_items[i].category = maint.ret.categories[k]
        /\ maint.ret.freed = format_size(BytesOf(Succeeded))
        /\ history[1].total_freed = format_size(BytesOf(Succeeded))

\* C28: last_disk_check_date changes only in an evaluation that returns
\* true through the disk-threshold branch, and then becomes the current
\* date; an evaluation that is gated out, not disk-triggered, made with
\* the threshold disabled, made after today's check, or that measures a
\* usage below the threshold, leaves it as it was.
C28_StampOnlyOnTrigger ==
    Evaluated =>
        IF ~GatedOut /\ DiskFires
        THEN evaluation.line = 94 /\ last_disk_check_date = today(now)
        ELSE evaluation.line # 94 /\ last_disk_check_date = evaluation.before

\* C28 witness: a disk-triggered evaluation on a later day than the last
\* trigger measured a usage below the threshold and left
\* last_disk_check_date on the earlier day.
C28_Witness ==
    /\ Evaluated /\ ~GatedOut
    /\ settings.disk_threshold_enabled
    /\ evaluation.in.force_disk_check
    /\ evaluation.in.usage < settings.disk_threshold_percent
    /\ evaluation.before # NoDate
    /\ evaluation.before # today(now)
    /\ last_disk_check_date = evaluation.before

(***************************************************************************)
(* A file tree with symbolic links, as os.path, os.walk and os.remove see  *)
(* it.  A tree is a function from the real absolute path of every          *)
(* directory entry that exists to what lstat finds there.  `denied` is set *)
(* on an entry the process has no permission for: scandir of such a        *)
(* directory, getsize and remove of such a file raise PermissionError.     *)
(***************************************************************************)
Absent == [kind |-> "absent"]

Dir(denied) == [kind |-> "dir", denied |-> denied]

File(size, denied) == [kind |-> "file", size |-> size, denied |-> denied]

Link(target) == [kind |-> "link", target |-> target, denied |-> FALSE]

NoEntries == [p \in {} |-> Absent]

\* posixpath.dirname of an absolute normalized path
dirname(p) ==
    LET comps == Split(p)
        head == Join(SubSeq(comps, 1, Len(comps) - 1))
    IN IF head = "" THEN "/" ELSE head

\* os.lstat of a path none of whose parents is a link
lstat_real(tree, p) == IF p \in DOMAIN tree THEN tree[p] ELSE Absent

\* posixpath._joinrealpath: the links of every component are followed
\* (no link of a tree points to a link, so the walk ends)
RECURSIVE joinrealpath(_, _, _)
joinrealpath(tree, path, rest) ==
    IF Len(rest) = 0 THEN path
    ELSE LET name == Head(rest)
             newpath == join(path, name)
             st == lstat_real(tree, newpath)
         IN IF name = ""
            THEN joinrealpath(tree, path, Tail(rest))
            ELSE IF st.kind = "link"
            THEN joinrealpath(tree,
                              joinrealpath(tree, "/", Split(st.target)),
                              Tail(rest))
            ELSE joinrealpath(tree, newpath, Tail(rest))

\* os.path.realpath
realpath(tree, p) == joinrealpath(tree, "/", Split(p))

\* the directory entry a path names: its parents resolved, itself not
entry_of(tree, p) == join(realpath(tree, dirname(p)), Basename(p))

\* os.lstat: the last component is not followed
lstat(tree, p) == lstat_real(tree, entry_of(tree, p))

\* os.stat: every link is followed
stat(tree, p) == lstat_real(tree, realpath(tree, p))

\* os.path.islink, os.path.isfile, os.path.isdir
islink(tree, p) == lstat(tree, p).kind = "link"

isfile(tree, p) == stat(tree, p).kind = "file"

isdir(tree, p) == stat(tree, p).kind = "dir"

\* os.scandir(top): the names in the directory top leads to
scandir(tree, top) ==
    LET d == realpath(tree, top)
    IN {Basename(q) : q \in {r \in DOMAIN tree : r # d /\ dirname(r) = d}}

\* a set in the order scandir happens to list it
RECURSIVE ListingOf(_)
ListingOf(S) ==
    IF S = {} THEN << >>
    ELSE LET x == CHOOSE y \in S : TRUE
         IN << x >> \o ListingOf(S \ {x})

\* os.walk(top), top-down, followlinks=False, onerror=None: a top that
\* cannot be listed yields nothing; a link to a directory is listed among
\* the directories and not descended; every other entry is listed as a file
RECURSIVE os_walk(_, _)
RECURSIVE WalkInto(_, _, _)
os_walk(tree, top) ==
    IF ~isdir(tree, top) \/ stat(tree, top).denied THEN << >>
    ELSE LET names == scandir(tree, top)
             dirs == {n \in names : isdir(tree, join(top, n))}
             walk_into == {n \in dirs : ~islink(tree, join(top, n))}
         IN << [root |-> top, dirs |-> ListingOf(dirs),
                files |-> ListingOf(names \ dirs)] >>
            \o WalkInto(tree, top, ListingOf(walk_into))

WalkInto(tree, top, dirs) ==
    IF Len(dirs) = 0 THEN << >>
    ELSE os_walk(tree, join(top, Head(dirs))) \o WalkInto(tree, top, Tail(dirs))

\* os.path.join(root, f) for every f of every triple the walk yields
RECURSIVE FilePaths(_)
FilePaths(walk) ==
    IF Len(walk) = 0 THEN << >>
    ELSE [k \in 1..Len(Head(walk).files) |->
              join(Head(walk).root, Head(walk).files[k])]
         \o FilePaths(Tail(walk))

\* the loop of get_size over the files: links skipped, unreadable sizes
\* passed over
RECURSIVE SumSizes(_, _)
SumSizes(tree, fps) ==
    IF Len(fps) = 0 THEN 0
    ELSE LET fp == Head(fps)
             st == lstat(tree, fp)
         IN (IF ~islink(tree, fp) /\ st.kind = "file" /\ ~st.denied
             THEN st.size ELSE 0)
            + SumSizes(tree, Tail(fps))

\* utils.get_size on a tree
walk_get_size(tree, path) == SumSizes(tree, FilePaths(os_walk(tree, path)))

\* os.remove(p): the directory entry is gone
Remove(tree, p) ==
    [q \in DOMAIN tree \ {entry_of(tree, p)} |-> tree[q]]

\* the loop of _clean_user over the files of the walk: it returns at the
\* first os.remove that raises
RECURSIVE RemoveFiles(_, _, _)
RemoveFiles(tree, fps, gone) ==
    IF Len(fps) = 0 THEN [ret |-> Ok, gone |-> gone, tree |-> tree]
    ELSE LET fp == Head(fps)
         IN IF lstat(tree, fp).denied
            THEN [ret |-> Fail(Msg("err_file_delete", <<Basename(fp), "e">>)),
                  gone |-> gone, tree |-> tree]
            ELSE RemoveFiles(Remove(tree, fp), Tail(fps), Append(gone, fp))

\* _clean_user that removes the files of the top directory only
walk_clean_user_TopOnly(tree, path) ==
    IF isfile(tree, path) THEN
        IF lstat(tree, path).denied
        THEN [ret |-> Fail(Msg("err_user_clean_fail", <<path, "e">>)),
              gone |-> << >>, tree |-> tree]
        ELSE [ret |-> Ok, gone |-> << path >>, tree |-> Remove(tree, path)]
    ELSE IF isdir(tree, path)
    THEN LET walk == os_walk(tree, path)
         IN RemoveFiles(tree,
                        FilePaths(IF Len(walk) = 0 THEN walk ELSE << walk[1] >>),
                        << >>)
    ELSE [ret |-> Ok, gone |-> << >>, tree |-> tree]

\* _clean_user on a tree: the return value, the paths removed, the tree left
walk_clean_user(tree, path) ==
    IF isfile(tree, path) THEN
        IF lstat(tree, path).denied
        THEN [ret |-> Fail(Msg("err_user_clean_fail", <<path, "e">>)),
              gone |-> << >>, tree |-> tree]
        ELSE [ret |-> Ok, gone |-> << path >>, tree |-> Remove(tree, path)]
    ELSE IF isdir(tree, path)
    THEN RemoveFiles(tree, FilePaths(os_walk(tree, path)), << >>)
    ELSE [ret |-> Ok, gone |-> << >>, tree |-> tree]

(***************************************************************************)
(* The trees the operations are applied to: the thumbnail cache of the     *)
(* user, a second cache entry that may be a link, and a directory of the   *)
(* user outside every allowed root.  No directory holds two files or two   *)
(* subdirectories, so the order of a listing does not matter.              *)
(***************************************************************************)
ThumbnailDir(h) == expanduser(h, "~/.cache/thumbnails")

PipDir(h) == expanduser(h, "~/.cache/pip")

Documents(h) == expanduser(h, "~/Documents")

\* what lies outside the allowed roots
OutsideTree(h) ==
    (Documents(h) :> Dir(FALSE))
    @@ (join(Documents(h), "x.txt") :> File(8, FALSE))
    @@ (join(Documents(h), "sub") :> Dir(FALSE))
    @@ (join(Documents(h), "sub/b.txt") :> File(16, FALSE))

\* a regular file at p, readable and removable or not
FileShapes(p, size) == {p :> File(size, d) : d \in BOOLEAN}

DeepShapes(p) ==
    {NoEntries, p :> Dir(FALSE)}
    \cup {(p :> Dir(FALSE)) @@ c : c \in FileShapes(join(p, "c.txt"), 4)}

SubShapes(h, p) ==
    {NoEntries, p :> Link(Documents(h))}
    \cup {(p :> Dir(FALSE)) @@ b @@ deep :
              b \in {NoEntries} \cup FileShapes(join(p, "b.txt"), 2),
              deep \in DeepShapes(join(p, "deep"))}

\* what the item path can be: absent, a file, a link to the outside, or a
\* directory with files, subdirectories and links at several depths
RootShapes(h, p) ==
    {NoEntries, p :> Link(Documents(h))}
    \cup FileShapes(p, 32)
    \cup {(p :> Dir(d)) @@ a @@ sub :
              d \in BOOLEAN,
              a \in {NoEntries,
                     join(p, "a.txt") :> Link(join(Documents(h), "x.txt")),
                     join(p, "a.txt") :> Link("/nowhere")}
                    \cup FileShapes(join(p, "a.txt"), 1),
              sub \in SubShapes(h, join(p, "sub"))}

TreeStates(h) ==
    {OutsideTree(h) @@ root @@ link :
        root \in RootShapes(h, ThumbnailDir(h)),
        link \in {NoEntries, PipDir(h) :> Link(Documents(h))}}

\* the paths get_size and clean are called with
TreePaths(h) ==
    {ThumbnailDir(h), join(ThumbnailDir(h), "a.txt"),
     join(ThumbnailDir(h), "sub"), PipDir(h), join(PipDir(h), "sub"),
     join(PipDir(h), "x.txt"), expanduser(h, "~/.cache/none"), Documents(h)}

InitTree ==
    /\ pkg_manager = "unknown"
    /\ home \in Homes
    /\ CleanerIdle
    /\ SchedulerIdle
    /\ fs \in TreeStates(home)
    /\ settings = defaults
    /\ now = 0

\* a call of get_size(path) and its return value
GetSize ==
    /\ pc = "idle"
    /\ \E path \in TreePaths(home) :
          last_call' = [op |-> "get_size", path |-> path,
                        ret |-> walk_get_size(fs, path)]
    /\ pc' = "returned"
    /\ UNCHANGED << pkg_manager, home >>
    /\ UNCHANGED cleanVars
    /\ UNCHANGED schedVars

\* clean([item]) for one item of user space, from the call to the return
CleanUserItem ==
    /\ pc = "idle"
    /\ \E path \in TreePaths(home) :
        /\ selected_items' = << [path |-> path, system |-> FALSE] >>
        /\ IF ~Validated(selected_items'[1], "/")
           THEN /\ Rejected
                /\ fs' = fs
           ELSE LET r == walk_clean_user(fs, path)
                IN /\ removed' = [k \in 1..Len(r.gone) |->
                                     [item |-> 1, path |-> r.gone[k]]]
                   /\ dispatched' = << [item |-> 1, to |-> "_clean_user",
                                        ret |-> r.ret] >>
                   /\ Tally(r.ret)
                   /\ fs' = r.tree
                   /\ UNCHANGED executed
        /\ last_call' = [op |-> "clean", before |-> fs,
                         ret |-> << success_count', fail_count', errors' >>]
    /\ idx' = 2
    /\ pc' = "returned"
    /\ UNCHANGED << pkg_manager, home, scan_results, settings, now,
                    last_disk_check_date, evaluation, threads, disk_triggers,
                    history, maint >>

NextTree ==
    \/ GetSize
    \/ CleanUserItem

SpecTree == InitTree /\ [][NextTree]_vars

(***************************************************************************)
(* Properties of get_size and of _clean_user on a file tree.               *)
(***************************************************************************)
\* clean([item]) has returned after handing the item to _clean_user
TreeCleaned ==
    /\ pc = "returned" /\ last_call.op = "clean"
    /\ Len(dispatched) = 1

\* get_size has been called and has returned
Sized == pc = "returned" /\ last_call.op = "get_size"

\* no entry of the tree refuses the process
NoDenied(tree) == \A q \in DOMAIN tree : ~tree[q].denied

\* q lies at some depth under the directory d
Beneath(q, d) == StartsWith(q, d \o "/")

RECURSIVE SizeOfFiles(_, _)
SizeOfFiles(tree, S) ==
    IF S = {} THEN 0
    ELSE LET q == CHOOSE r \in S : TRUE
         IN tree[q].size + SizeOfFiles(tree, S \ {q})

\* the readable regular files reached from path through real directories
\* only: no component of path or of the way down is a symbolic link
RealFilesFrom(tree, path) ==
    IF /\ lstat_real(tree, path).kind = "dir"
       /\ realpath(tree, path) = path
       /\ ~lstat_real(tree, path).denied
    THEN {q \in DOMAIN tree :
             /\ Beneath(q, path)
             /\ tree[q].kind = "file" /\ ~tree[q].denied
             /\ realpath(tree, q) = q}
    ELSE {}

\* C25: get_size(path) is the sum of the sizes of the readable files that
\* are not symbolic links and are reached by descending real directories
\* from path; no symbolic link is counted or followed; a root that does
\* not exist or cannot be read gives 0.
C25_SizeOfRealFiles ==
    Sized => last_call.ret = SizeOfFiles(fs, RealFilesFrom(fs, last_call.path))

\* the files under the cleaned directory whose removal the tree refuses
Unremovable(tree, top) ==
    {q \in DOMAIN tree :
        Beneath(q, top) /\ tree[q].kind = "file" /\ tree[q].denied}

\* C26: when the removal of a file fails during user-space cleaning of a
\* directory, the item is counted as failed with an error message that
\* names the file, every file removed before the failure stays removed,
\* and each file that could not be removed is named by an error message.
C26_EachFailureReported ==
    (/\ TreeCleaned
     /\ isdir(last_call.before, selected_items[1].path)
     /\ ~dispatched[1].ret.success) =>
        LET before == last_call.before
            top == realpath(before, selected_items[1].path)
            errs == last_call.ret[3]
        IN /\ last_call.ret[1] = 0 /\ last_call.ret[2] = 1
           /\ Len(errs) > 0
           /\ \A k \in 1..Len(errs) :
                 /\ errs[k].key = "err_file_delete"
                 /\ \E q \in Unremovable(before, top) :
                       errs[k].args[1] = Basename(q)
           /\ \A k \in 1..Len(removed) :
                 entry_of(before, removed[k].path) \notin DOMAIN fs
           /\ \A q \in Unremovable(before, top) :
                 \E k \in 1..Len(errs) : errs[k].args[1] = Basename(q)

\* C29: every file removed by user-space cleaning of an item that passed
\* is_safe_to_delete lies, once the symbolic links of its path are
\* resolved, under a directory the validator allows, also when the path of
\* the item or one of its parents is a symbolic link.
C29_RemovedUnderAllowedRoots ==
    TreeCleaned =>
        \A k \in 1..Len(removed) :
            is_safe_to_delete(pkg_manager, home, "/",
                              entry_of(last_call.before, removed[k].path))

\* the positions of a catalog whose path is a regular file
FilePositions(cats) == {k \in 1..Len(cats) : fs[cats[k][2]].kind = "file"}

\* C30: a category whose path is a regular file is never in the result of
\* scan, because get_size gives 0 for a file; when every marker path of
\* the package manager is a file, the result holds no orphan-removal
\* category.
C30_FilePathNeverSurfaced ==
    Scanned =>
        LET cats == categories(pkg_manager, home)
        IN /\ \A k \in 1..Len(scan_results) :
                 fs[scan_results[k].path].kind # "file"
           /\ (\A k \in 1..Len(cats) :
                  cats[k][1] = "cat_autoremove" => k \in FilePositions(cats))
              => \A k \in 1..Len(scan_results) :
                    scan_results[k].category # "cat_autoremove"

\* C30 witness: the marker of the package manager is a file of non-zero
\* length and the package cache holds bytes; scan returned the package
\* cache and not the marker.
C30_Witness ==
    /\ Scanned
    /\ pkg_manager = "apt"
    /\ fs["/usr/bin/apt"] = [kind |-> "file", bytes |-> MaxSize]
    /\ \E k \in 1..Len(scan_results) :
          scan_results[k].category = "cat_pkg_cache"
    /\ \A k \in 1..Len(scan_results) : scan_results[k].path # "/usr/bin/apt"

====
